---- MODULE Spec2Model ----
(***************************************************************************)
(* Model of backend/data.py: the synthetic furnace data generator.         *)
(*                                                                         *)
(* Floating-point quantities are fixed-point integers.  Temperatures,      *)
(* flows, ratios, percentages and random draws carry Scale units per unit  *)
(* (a draw of np.random.rand() is an integer in 0..Scale-1); energies,     *)
(* per-second rates and the combustion efficiency carry Micro = Scale^2    *)
(* units per unit.  Divisions round towards minus infinity.                *)
(*                                                                         *)
(* numpy's process-wide random generator is the state variable rng.  Its   *)
(* seed is never set by the script, so the initial value is arbitrary;     *)
(* every draw advances it deterministically.                               *)
(***************************************************************************)
EXTENDS Integers, Sequences, FiniteSets, TLC

(* ---------------------------------------------------------------------- *)
(* Bounds of the model                                                     *)
(* ---------------------------------------------------------------------- *)
\* fixed-point resolution: units per 1.0
Scale == 1000
\* number of states of the random generator
RandMod == 256
\* largest num_sequences explored (the script uses 10000)
MaxSequences == 2
\* largest sequence_length explored (the script uses 30)
MaxLength == 3
\* number of terms of the series that evaluates np.exp
ExpTerms == 12
\* quotients saturate at +-RatioCap (keeps the fixed-point values in range)
RatioCap == 10000

Micro == Scale * Scale

(* ---------------------------------------------------------------------- *)
(* Arithmetic helpers                                                      *)
(* ---------------------------------------------------------------------- *)
Max(a, b) == IF a >= b THEN a ELSE b
Min(a, b) == IF a <= b THEN a ELSE b
Abs(a) == IF a >= 0 THEN a ELSE -a

\* <<q, r>> with a * b = q * c + r and 0 <= r < c, for b >= 0 and c > 0,
\* computed without forming the product a * b
RECURSIVE MulDivQR(_, _, _)
MulDivQR(a, b, c) ==
    IF b = 0 THEN <<0, 0>>
    ELSE LET h == MulDivQR(a, b \div 2, c)
             odd == (b % 2 = 1)
             r2 == 2 * h[2] + (IF odd THEN a % c ELSE 0)
             q2 == 2 * h[1] + (IF odd THEN a \div c ELSE 0)
         IN <<q2 + (r2 \div c), r2 % c>>

\* floor(a * b / c)
MulDiv(a, b, c) == MulDivQR(a, b, c)[1]

\* Python's a / c as a fixed-point quotient: floor(a * Scale / c), saturated
Ratio(a, c) ==
    LET q == a \div c
    IN IF q >= RatioCap THEN RatioCap * Scale
       ELSE IF q < -RatioCap THEN -RatioCap * Scale
       ELSE MulDiv(a, Scale, c)

\* k-th and later terms of sum_k (-f)^k / k!, in Micro units; f in 0..Scale
RECURSIVE ExpSeries(_, _, _)
ExpSeries(f, k, term) ==
    IF k > ExpTerms \/ term = 0 THEN 0
    ELSE LET nxt == (term * f) \div (Scale * k)
         IN (IF k % 2 = 1 THEN -nxt ELSE nxt) + ExpSeries(f, k + 1, nxt)

\* exp(-f) for 0 <= f <= 1.0, in Micro units
ExpFrac(f) == Micro + ExpSeries(f, 1, Micro)

\* exp(-n) for a natural number n, in Micro units
RECURSIVE ExpInt(_)
ExpInt(n) ==
    IF n = 0 THEN Micro
    ELSE LET p == ExpInt(n - 1)
         IN IF p = 0 THEN 0 ELSE MulDiv(p, ExpFrac(Scale), Micro)

\* exp(-n) for n in 0..19 and exp(-f) for f in 0..Scale, tabulated
ExpIntTable == [n \in 0 .. 19 |-> ExpInt(n)]
ExpFracTable == [f \in 0 .. Scale |-> ExpFrac(f)]

\* np.exp(-x) for x >= 0 (x in Scale units, result in Micro units); results
\* below the resolution of Micro are 0
NpExpNeg(x) ==
    IF x >= 20 * Scale THEN 0
    ELSE MulDiv(ExpIntTable[x \div Scale], ExpFracTable[x % Scale], Micro)

\* np.clip(x, a_min, a_max) = minimum(maximum(x, a_min), a_max)
\* (mutant: the upper bound is not applied)
NpClipLowerOnly(x, lo, hi) == Max(x, lo)

NpClip(x, lo, hi) == Min(Max(x, lo), hi)

(* ---------------------------------------------------------------------- *)
(* The random source                                                       *)
(* ---------------------------------------------------------------------- *)
RandStates == 0 .. (RandMod - 1)

\* state of the generator after one draw
NextRng(r) == (r * 21 + 1) % RandMod

\* value in [0, 1.0) that np.random.rand() returns from generator state r
Rand(r) == (r * Scale) \div RandMod

\* np.random.uniform(low, high) = low + (high - low) * u for a draw u in [0, 1)
NpUniform(rg, u) == rg[1] + ((rg[2] - rg[1]) * u) \div Scale

(* ---------------------------------------------------------------------- *)
(* Constants of the two physical models                                    *)
(* ---------------------------------------------------------------------- *)
AFR_opt == (147 * Scale) \div 10
max_fuel_energy == 39000
furnace_mass == 5000
\* specific_heat = 0.5 = specific_heat_num / specific_heat_den
specific_heat_num == 5
specific_heat_den == 10
\* heat_loss_coeff = 0.0005 = heat_loss_num / CoeffDen
heat_loss_num == 5
\* inlet_coeff = 0.0002 = inlet_num / CoeffDen
inlet_num == 2
CoeffDen == 10000
ambient_temp == 25 * Scale
time_step == 1
SecondsPerHour == 3600
HHV == 39000
\* U = 0.0005 = U_num / CoeffDen
U_num == 5
A == 10
T_flame == 1800 * Scale
sigma == 2 * Scale
O2Percent == 21
\* max(fuel_flow, 1e-3)
FuelFloor == Max(Scale \div 1000, 1)
\* max(Q_comb, 1e-6)
QcombFloor == Max(Micro \div 1000000, 1)
\* default noise_level of calculate_temperature (1.0) and calculate_excess_o2 (0.2)
TempNoiseLevel == Scale
O2NoiseLevel == (2 * Scale) \div 10

\* np.exp(-(afr - AFR_opt)**2 / (2 * sigma**2)), in Micro units
Efficiency(afr) ==
    LET d == Abs(afr - AFR_opt)
    IN IF d >= 20 * Scale THEN 0
       ELSE NpExpNeg((d * d) \div ((2 * sigma * sigma) \div Scale))

\* (np.random.rand() - 0.5) * 2 * noise_level for a draw u
Noise(u, noise_level) == ((2 * u - Scale) * noise_level) \div Scale

\* new_temp of calculate_temperature: the value before the final clamp,
\* with the draw u that the call consumes
new_temp_of(fuel_flow_, air_flow_, current_temp_, inflow_temp_, inflow_rate_, noise_level, u) ==
    LET fuel_s == (fuel_flow_ * Scale) \div SecondsPerHour
        inflow_s == (inflow_rate_ * Scale) \div SecondsPerHour
        AFR == (air_flow_ * Scale) \div Max(fuel_flow_, FuelFloor)
        efficiency == Efficiency(AFR)
        Q_comb == MulDiv(fuel_s * max_fuel_energy * time_step, efficiency, Micro)
        Q_loss == MulDiv(heat_loss_num * (current_temp_ - ambient_temp) * time_step,
                         Scale, CoeffDen)
        Q_inflow == MulDiv(inlet_num * (current_temp_ - inflow_temp_) * time_step,
                           inflow_s, CoeffDen * Scale)
        net_energy == Q_comb - Q_loss - Q_inflow
        temp_change == net_energy
                           \div (Scale * ((furnace_mass * specific_heat_num)
                                              \div specific_heat_den))
        noise == Noise(u, noise_level)
    IN current_temp_ + temp_change + noise

\* mutant of calculate_temperature: new_temp is returned without the clamp
calculate_temperature_noclamp(fuel_flow_, air_flow_, current_temp_, inflow_temp_, inflow_rate_, noise_level, u) ==
    new_temp_of(fuel_flow_, air_flow_, current_temp_, inflow_temp_,
                inflow_rate_, noise_level, u)

\* calculate_temperature(fuel_flow, air_flow, current_temp, inflow_temp,
\*                       inflow_rate, noise_level): return max(ambient_temp, new_temp)
calculate_temperature(fuel_flow_, air_flow_, current_temp_, inflow_temp_, inflow_rate_, noise_level, u) ==
    Max(ambient_temp,
        new_temp_of(fuel_flow_, air_flow_, current_temp_, inflow_temp_,
                    inflow_rate_, noise_level, u))

\* excess_o2 + noise of calculate_excess_o2: the value before the final
\* clamp, with the draw u that the call consumes
noisy_excess_o2(air_fuel_ratio, fuel_flow_, current_temp_, noise_level, u) ==
    LET fuel_s == (fuel_flow_ * Scale) \div SecondsPerHour
        eta == Efficiency(air_fuel_ratio)
        Q_comb == MulDiv(fuel_s * HHV, eta, Micro)
        Q_trans == MulDiv(U_num * A * (T_flame - current_temp_), Scale, CoeffDen)
        frac_lost == Max(0, Scale - Ratio(Q_trans, Max(Q_comb, QcombFloor)))
        excess_o2 == frac_lost * O2Percent
        noise == Noise(u, noise_level)
    IN excess_o2 + noise

\* mutant of calculate_excess_o2: the sum is returned without the clamp
calculate_excess_o2_noclamp(air_fuel_ratio, fuel_flow_, current_temp_, noise_level, u) ==
    noisy_excess_o2(air_fuel_ratio, fuel_flow_, current_temp_, noise_level, u)

\* calculate_excess_o2(air_fuel_ratio, fuel_flow, current_temp, noise_level):
\* return max(0, excess_o2 + noise)
calculate_excess_o2(air_fuel_ratio, fuel_flow_, current_temp_, noise_level, u) ==
    Max(0, noisy_excess_o2(air_fuel_ratio, fuel_flow_, current_temp_, noise_level, u))

(* ---------------------------------------------------------------------- *)
(* The generator script                                                    *)
(* ---------------------------------------------------------------------- *)
VARIABLES
    num_sequences,    \* sampling parameter (line 73)
    sequence_length,  \* sampling parameter (line 74)
    ranges,           \* the five sampling ranges, <<low, high>> each
    rng,              \* state of numpy's global random generator
    records,          \* the list of emitted rows
    seq,              \* outer loop variable
    t,                \* inner loop variable
    fuel_flow, afr, air_flow,               \* static parameters of the sequence
    current_temp, inflow_temp, inflow_rate, \* state of the sequence
    pc,               \* "outer": at the head of the outer loop, "inner": at the
                      \* head of the inner loop, "done": after the export
    table,            \* rows written to the CSV file (<<>> before the export)
    written,          \* TRUE once df.to_csv has run
    call              \* a direct invocation of one update function

cfgvars == <<num_sequences, sequence_length, ranges>>
seqvars == <<fuel_flow, afr, air_flow, current_temp, inflow_temp, inflow_rate>>
genvars == <<rng, records, seq, t, seqvars, pc, table, written>>
vars == <<cfgvars, genvars, call>>

\* the ranges dictionary of the script
CodeRanges ==
    [fuel_flow      |-> <<1 * Scale, 20 * Scale>>,
     air_fuel_ratio |-> <<(6 * Scale) \div 10, 25 * Scale>>,
     current_temp   |-> <<25 * Scale, 500 * Scale>>,
     inflow_temp    |-> <<100 * Scale, 200 * Scale>>,
     inflow_rate    |-> <<50 * Scale, 200 * Scale>>]

NoCall == [fn |-> "none"]

\* value of the loop variables and of the per-sequence names before their
\* first assignment (never read by the script)
Unbound == 0

\* state of the script on reaching the generation loop, for a configuration
GenInit ==
    /\ rng \in RandStates
    /\ records = <<>>
    /\ seq = 0
    /\ t = Unbound
    /\ fuel_flow = Unbound /\ afr = Unbound /\ air_flow = Unbound
    /\ current_temp = Unbound /\ inflow_temp = Unbound /\ inflow_rate = Unbound
    /\ pc = "outer"
    /\ table = <<>>
    /\ written = FALSE
    /\ call = NoCall

\* the script as written, for every positive number of sequences and
\* sequence length within the bounds
Init ==
    /\ num_sequences \in 1 .. MaxSequences
    /\ sequence_length \in 1 .. MaxLength
    /\ ranges = CodeRanges
    /\ GenInit

\* mutant of Record: the row carries the post-update temperature
Record_postupdate(seq_, t_, fuel_flow_, afr_, current_temp_, inflow_temp_, inflow_rate_, next_temp, next_o2) ==
    [sequence       |-> seq_,
     timestep       |-> t_,
     fuel_flow      |-> fuel_flow_,
     air_fuel_ratio |-> afr_,
     current_temp   |-> next_temp,
     inflow_temp    |-> inflow_temp_,
     inflow_rate    |-> inflow_rate_,
     next_temp      |-> next_temp,
     next_excess_o2 |-> next_o2]

\* the row appended by one iteration of the inner loop
Record(seq_, t_, fuel_flow_, afr_, current_temp_, inflow_temp_, inflow_rate_, next_temp, next_o2) ==
    [sequence       |-> seq_,
     timestep       |-> t_,
     fuel_flow      |-> fuel_flow_,
     air_fuel_ratio |-> afr_,
     current_temp   |-> current_temp_,
     inflow_temp    |-> inflow_temp_,
     inflow_rate    |-> inflow_rate_,
     next_temp      |-> next_temp,
     next_excess_o2 |-> next_o2]

\* mutant of Emit: records.insert(0, row)
Emit_prepend(recs, row) == <<row>> \o recs

\* records.append(row)
Emit(recs, row) == Append(recs, row)

\* mutant of RandomWalk: the draw is not centred, x + np.random.rand() * width
RandomWalk_uncentred(x, u, width) == x + (u * width)

\* x + (np.random.rand() - 0.5) * width for a draw u
RandomWalk(x, u, width) == x + ((2 * u - Scale) * width) \div 2

\* for seq in range(num_sequences): the next sequence is entered and its
\* parameters and initial state are sampled
SampleSequence ==
    /\ pc = "outer"
    /\ seq < num_sequences
    /\ LET r1 == NextRng(rng)
           r2 == NextRng(r1)
           r3 == NextRng(r2)
           r4 == NextRng(r3)
           r5 == NextRng(r4)
           ff == NpUniform(ranges.fuel_flow, Rand(r1))
           ar == NpUniform(ranges.air_fuel_ratio, Rand(r2))
       IN /\ fuel_flow' = ff
          /\ afr' = ar
          /\ current_temp' = NpUniform(ranges.current_temp, Rand(r3))
          /\ inflow_temp' = NpUniform(ranges.inflow_temp, Rand(r4))
          /\ inflow_rate' = NpUniform(ranges.inflow_rate, Rand(r5))
          /\ air_flow' = (ff * ar) \div Scale
          /\ rng' = r5
    /\ t' = 0
    /\ pc' = "inner"
    /\ UNCHANGED <<cfgvars, records, seq, table, written, call>>

\* mutant of Step: the inner loop runs for t in range(sequence_length + 1)
Step_offbyone ==
    /\ pc = "inner"
    /\ t <= sequence_length
    /\ LET r1 == NextRng(rng)
           r2 == NextRng(r1)
           r3 == NextRng(r2)
           r4 == NextRng(r3)
           next_temp == calculate_temperature(fuel_flow, air_flow, current_temp,
                                              inflow_temp, inflow_rate,
                                              TempNoiseLevel, Rand(r1))
           next_o2 == calculate_excess_o2(afr, fuel_flow, current_temp,
                                          O2NoiseLevel, Rand(r2))
       IN /\ records' = Emit(records,
                             Record(seq, t, fuel_flow, afr, current_temp,
                                    inflow_temp, inflow_rate, next_temp, next_o2))
          /\ current_temp' = next_temp
          /\ inflow_temp' = NpClip(RandomWalk(inflow_temp, Rand(r3), 10),
                                   ranges.inflow_temp[1], ranges.inflow_temp[2])
          /\ inflow_rate' = NpClip(RandomWalk(inflow_rate, Rand(r4), 20),
                                   ranges.inflow_rate[1], ranges.inflow_rate[2])
          /\ rng' = r4
    /\ t' = t + 1
    /\ UNCHANGED <<cfgvars, seq, fuel_flow, afr, air_flow, pc, table, written, call>>

\* mutant of Step: the fuel flow drifts with the inflow variables
Step_fueldrift ==
    /\ pc = "inner"
    /\ t < sequence_length
    /\ LET r1 == NextRng(rng)
           r2 == NextRng(r1)
           r3 == NextRng(r2)
           r4 == NextRng(r3)
           next_temp == calculate_temperature(fuel_flow, air_flow, current_temp,
                                              inflow_temp, inflow_rate,
                                              TempNoiseLevel, Rand(r1))
           next_o2 == calculate_excess_o2(afr, fuel_flow, current_temp,
                                          O2NoiseLevel, Rand(r2))
       IN /\ records' = Emit(records,
                             Record(seq, t, fuel_flow, afr, current_temp,
                                    inflow_temp, inflow_rate, next_temp, next_o2))
          /\ current_temp' = next_temp
          /\ inflow_temp' = NpClip(RandomWalk(inflow_temp, Rand(r3), 10),
                                   ranges.inflow_temp[1], ranges.inflow_temp[2])
          /\ inflow_rate' = NpClip(RandomWalk(inflow_rate, Rand(r4), 20),
                                   ranges.inflow_rate[1], ranges.inflow_rate[2])
          /\ fuel_flow' = NpClip(RandomWalk(fuel_flow, Rand(r4), 2),
                                 ranges.fuel_flow[1], ranges.fuel_flow[2])
          /\ rng' = r4
    /\ t' = t + 1
    /\ UNCHANGED <<cfgvars, seq, afr, air_flow, pc, table, written, call>>

\* for t in range(sequence_length): one iteration of the inner loop
Step ==
    /\ pc = "inner"
    /\ t < sequence_length
    /\ LET r1 == NextRng(rng)
           r2 == NextRng(r1)
           r3 == NextRng(r2)
           r4 == NextRng(r3)
           next_temp == calculate_temperature(fuel_flow, air_flow, current_temp,
                                              inflow_temp, inflow_rate,
                                              TempNoiseLevel, Rand(r1))
           next_o2 == calculate_excess_o2(afr, fuel_flow, current_temp,
                                          O2NoiseLevel, Rand(r2))
       IN /\ records' = Emit(records,
                             Record(seq, t, fuel_flow, afr, current_temp,
                                    inflow_temp, inflow_rate, next_temp, next_o2))
          /\ current_temp' = next_temp
          /\ inflow_temp' = NpClip(RandomWalk(inflow_temp, Rand(r3), 10),
                                   ranges.inflow_temp[1], ranges.inflow_temp[2])
          /\ inflow_rate' = NpClip(RandomWalk(inflow_rate, Rand(r4), 20),
                                   ranges.inflow_rate[1], ranges.inflow_rate[2])
          /\ rng' = r4
    /\ t' = t + 1
    /\ UNCHANGED <<cfgvars, seq, fuel_flow, afr, air_flow, pc, table, written, call>>

\* the inner loop is exhausted: back to the head of the outer loop
EndSequence ==
    /\ pc = "inner"
    /\ t >= sequence_length
    /\ seq' = seq + 1
    /\ pc' = "outer"
    /\ UNCHANGED <<cfgvars, rng, records, t, seqvars, table, written, call>>

\* the outer loop is exhausted: df = pd.DataFrame(records); df.to_csv(...)
Export ==
    /\ pc = "outer"
    /\ seq >= num_sequences
    /\ table' = records
    /\ written' = TRUE
    /\ pc' = "done"
    /\ UNCHANGED <<cfgvars, rng, records, seq, t, seqvars, call>>

Next == SampleSequence \/ Step \/ EndSequence \/ Export

Spec == Init /\ [][Next]_vars

(* ---------------------------------------------------------------------- *)
(* The script with its sampling parameters edited                          *)
(* ---------------------------------------------------------------------- *)
\* the script's ranges, the same with inflow_temp inverted, and the same
\* with current_temp empty (low = high)
RangeConfigs ==
    {CodeRanges,
     [CodeRanges EXCEPT !.inflow_temp = <<200 * Scale, 100 * Scale>>],
     [CodeRanges EXCEPT !.current_temp = <<25 * Scale, 25 * Scale>>]}

InitCfg ==
    /\ num_sequences \in -1 .. MaxSequences
    /\ sequence_length \in -1 .. MaxLength
    /\ ranges \in RangeConfigs
    /\ GenInit

SpecCfg == InitCfg /\ [][Next]_vars

(* ---------------------------------------------------------------------- *)
(* The two update functions called directly                                *)
(* ---------------------------------------------------------------------- *)
FuelFlowArgs == {0, 1 * Scale, 20 * Scale}
AfrArgs == {(6 * Scale) \div 10, (147 * Scale) \div 10, 16 * Scale}
CurrentTempArgs == {-500 * Scale, 25 * Scale, 500 * Scale, 1800 * Scale, 1801 * Scale}
InflowTempArgs == {100 * Scale, 200 * Scale}
InflowRateArgs == {200 * Scale}
NoiseLevelArgs == {0, (2 * Scale) \div 10, Scale}

\* a call that has not run yet, with its arguments
PendingCalls ==
    [fn : {"pending"}, fuel_flow : FuelFlowArgs, air_fuel_ratio : AfrArgs,
     current_temp : CurrentTempArgs, inflow_temp : InflowTempArgs,
     inflow_rate : InflowRateArgs, noise_level : NoiseLevelArgs,
     u : {0}, result : {0}]

\* the module body has run (here: an empty run) and a caller holds arguments
InitFn ==
    /\ num_sequences = 0
    /\ sequence_length = 1
    /\ ranges = CodeRanges
    /\ rng \in RandStates
    /\ records = <<>>
    /\ seq = 0
    /\ t = Unbound
    /\ fuel_flow = Unbound /\ afr = Unbound /\ air_flow = Unbound
    /\ current_temp = Unbound /\ inflow_temp = Unbound /\ inflow_rate = Unbound
    /\ pc = "done"
    /\ table = <<>>
    /\ written = TRUE
    /\ call \in PendingCalls

CallTemperature ==
    /\ call.fn = "pending"
    /\ LET r1 == NextRng(rng)
       IN /\ call' = [call EXCEPT
                        !.fn = "calculate_temperature",
                        !.u = Rand(r1),
                        !.result = calculate_temperature(
                                       call.fuel_flow,
                                       (call.fuel_flow * call.air_fuel_ratio) \div Scale,
                                       call.current_temp, call.inflow_temp,
                                       call.inflow_rate, call.noise_level, Rand(r1))]
          /\ rng' = r1
    /\ UNCHANGED <<cfgvars, records, seq, t, seqvars, pc, table, written>>

CallExcessO2 ==
    /\ call.fn = "pending"
    /\ LET r1 == NextRng(rng)
       IN /\ call' = [call EXCEPT
                        !.fn = "calculate_excess_o2",
                        !.u = Rand(r1),
                        !.result = calculate_excess_o2(
                                       call.air_fuel_ratio, call.fuel_flow,
                                       call.current_temp, call.noise_level, Rand(r1))]
          /\ rng' = r1
    /\ UNCHANGED <<cfgvars, records, seq, t, seqvars, pc, table, written>>

NextFn == CallTemperature \/ CallExcessO2

SpecFn == InitFn /\ [][NextFn]_vars

\* the script, and the direct calls
InitAll == Init \/ InitFn
NextAll == SampleSequence \/ Step \/ EndSequence \/ Export
               \/ CallTemperature \/ CallExcessO2
SpecAll == InitAll /\ [][NextAll]_vars

(* ---------------------------------------------------------------------- *)
(* Properties                                                              *)
(* ---------------------------------------------------------------------- *)
Rows == 1 .. Len(records)
TableRows == 1 .. Len(table)
InRange(x, rg) == rg[1] <= x /\ x <= rg[2]

\* C1: once the table is written for num_sequences = N and sequence_length
\* = L (both positive) it has exactly N * L rows, every row's sequence is in
\* 0..N-1, each of these values is carried by exactly L rows, and the
\* timesteps of those rows are exactly 0..L-1, none missing or repeated.
C1_TableShape ==
    pc = "done" =>
        /\ Len(table) = num_sequences * sequence_length
        /\ \A i \in TableRows : table[i].sequence \in 0 .. (num_sequences - 1)
        /\ \A s \in 0 .. (num_sequences - 1) :
              LET rows == {i \in TableRows : table[i].sequence = s}
              IN /\ Cardinality(rows) = sequence_length
                 /\ {table[i].timestep : i \in rows} = 0 .. (sequence_length - 1)

C1_Witness ==
    /\ pc = "done" /\ written
    /\ num_sequences >= 2 /\ sequence_length >= 2
    /\ Len(table) = num_sequences * sequence_length

\* C2: calculate_temperature never returns less than the ambient 25.0,
\* whatever the arguments and the noise draw, and every emitted row has
\* current_temp >= 25.0 and next_temp >= 25.0, after any number of steps.
C2_AmbientFloor ==
    /\ call.fn = "calculate_temperature" => call.result >= ambient_temp
    /\ \A i \in Rows : /\ records[i].current_temp >= ambient_temp
                       /\ records[i].next_temp >= ambient_temp

\* a row of a later timestep whose temperature fell onto the floor
C2_Witness ==
    \E i \in Rows : /\ records[i].timestep > 0
                    /\ records[i].current_temp > ambient_temp
                    /\ records[i].next_temp = ambient_temp

\* C3: calculate_excess_o2 never returns a negative value, whatever the
\* arguments and the noise draw, and every emitted row has next_excess_o2 >= 0.
C3_O2NonNegative ==
    /\ call.fn = "calculate_excess_o2" => call.result >= 0
    /\ \A i \in Rows : records[i].next_excess_o2 >= 0

\* a direct call whose unclamped value was negative
C3_Witness ==
    /\ call.fn = "calculate_excess_o2"
    /\ call.result = 0
    /\ noisy_excess_o2(call.air_fuel_ratio, call.fuel_flow, call.current_temp,
                       call.noise_level, call.u) < 0

\* C4: in every emitted row, at every timestep, inflow_temp is in
\* [100, 200] and inflow_rate is in [50, 200].
C4_InflowInRange ==
    \A i \in Rows : /\ InRange(records[i].inflow_temp, <<100 * Scale, 200 * Scale>>)
                    /\ InRange(records[i].inflow_rate, <<50 * Scale, 200 * Scale>>)

\* a row after a random-walk step that was clamped at a bound
C4_Witness ==
    \E i \in Rows : /\ records[i].timestep > 0
                    /\ \/ records[i].inflow_temp = 200 * Scale
                       \/ records[i].inflow_temp = 100 * Scale
                       \/ records[i].inflow_rate = 200 * Scale
                       \/ records[i].inflow_rate = 50 * Scale

ConfigInvalid ==
    \/ num_sequences <= 0
    \/ sequence_length <= 0
    \/ \E k \in DOMAIN ranges : ranges[k][1] >= ranges[k][2]

C7_Ordered ==
    /\ [](/\ \A i, j \in Rows :
                (i < j /\ records[i].sequence = records[j].sequence)
                    => records[i].timestep < records[j].timestep
          /\ (pc = "inner" /\ t > 0) =>
                /\ records # <<>>
                /\ records[Len(records)].sequence = seq
                /\ records[Len(records)].timestep = t - 1
          /\ written => table = records)
    /\ [][/\ Len(records') >= Len(records)
          /\ \A i \in Rows : records'[i] = records[i]]_vars

\* two rows of one sequence are in the table
C7_Witness ==
    \E i, j \in Rows : /\ i < j
                       /\ records[i].sequence = records[j].sequence

\* C9: every row of a sequence carries the fuel_flow and air_fuel_ratio of
\* that sequence's row at timestep 0, air_flow stays fuel_flow times
\* air_fuel_ratio, and an iteration of the inner loop changes none of
\* fuel_flow, air_fuel_ratio and air_flow.
C9_StaticParameters ==
    /\ [](/\ \A i, j \in Rows :
                (records[i].sequence = records[j].sequence /\ records[j].timestep = 0)
                    => /\ records[i].fuel_flow = records[j].fuel_flow
                       /\ records[i].air_fuel_ratio = records[j].air_fuel_ratio
          /\ pc = "inner" =>
                /\ air_flow = (fuel_flow * afr) \div Scale
                /\ t > 0 => /\ records[Len(records)].fuel_flow = fuel_flow
                            /\ records[Len(records)].air_fuel_ratio = afr)
    /\ [][(pc = "inner" /\ pc' = "inner") =>
              /\ fuel_flow' = fuel_flow
              /\ afr' = afr
              /\ air_flow' = air_flow]_vars

\* a sequence with a row at timestep 0 and a later row
C9_Witness ==
    \E i, j \in Rows : /\ records[i].sequence = records[j].sequence
                       /\ records[j].timestep = 0
                       /\ records[i].timestep > 0
                       /\ pc = "inner"

\* C10: the row emitted by an iteration holds the inputs of that iteration:
\* its next_temp and next_excess_o2 are what calculate_temperature and
\* calculate_excess_o2 return for the row's own current_temp, inflow_temp,
\* inflow_rate, fuel_flow and air_fuel_ratio (two consecutive draws), and
\* the state is committed from the row: after the iteration current_temp is
\* the row's next_temp and one row per finished iteration has been emitted.
C10_PreUpdateInputs ==
    (pc = "inner" /\ t > 0) =>
        /\ Len(records) = seq * sequence_length + t
        /\ LET row == records[Len(records)]
           IN /\ current_temp = row.next_temp
              /\ \E r \in RandStates :
                    /\ row.next_temp =
                          calculate_temperature(row.fuel_flow,
                              (row.fuel_flow * row.air_fuel_ratio) \div Scale,
                              row.current_temp, row.inflow_temp, row.inflow_rate,
                              TempNoiseLevel, Rand(r))
                    /\ row.next_excess_o2 =
                          calculate_excess_o2(row.air_fuel_ratio, row.fuel_flow,
                              row.current_temp, O2NoiseLevel, Rand(NextRng(r)))

\* an iteration whose temperature update changed the temperature
C10_Witness ==
    /\ pc = "inner" /\ t > 0
    /\ records[Len(records)].next_temp # records[Len(records)].current_temp

====
